---- MODULE Spec2Model ----
(***************************************************************************)
(* TokenGen bot (src/token_bot.py): the credit ledger, the token issuance  *)
(* workflow, the payment handler and the per-user conversation state.      *)
(*                                                                         *)
(* The process is one uvicorn worker running one asyncio event loop, and   *)
(* the Supabase client is the synchronous one: a handler runs without      *)
(* interruption between two awaits of the chat transport (call.answer,     *)
(* message.answer).  The DatabaseManager coroutines and the in-memory FSM  *)
(* storage never suspend, so each action below is the code between two     *)
(* transport awaits, and a handler that goes on after such an await leaves *)
(* a continuation in `tasks`.  Every store call and every transport call   *)
(* may raise; `f` is the set of calls of a step that raise.                *)
(*                                                                         *)
(* Account fields that no handler reads (username, first_name, is_premium, *)
(* created_at, last_active) are left out, and a date-time is kept as its   *)
(* UTC day number, which is all that .date() comparisons read.             *)
(***************************************************************************)
EXTENDS Integers, Sequences, FiniteSets, Bags, TLC

VARIABLES
    users,               \* table "users": telegram_id -> row
    token_transactions,  \* table "token_transactions": the bag of GenerationRecords
    payments,            \* table "payments": the bag of PaymentRecords
    today,               \* datetime.utcnow().date()
    fsm_state,           \* MemoryStorage: per-user FSM state
    fsm_data,            \* MemoryStorage: per-user FSM data dict
    tasks,               \* handlers suspended in a transport await
    reply,               \* the denial or payment message the latest step sent, if any
    funds,               \* history: initial balance plus credits granted so far
    paidSpent,           \* history: sum of the costs of balance-funded issuances
    freeCount,           \* history: free-funded issuances of the current day
    issued,              \* history: funded issuances of this run
    given,               \* history: what each user has supplied in the current flow
    faults,              \* history: number of raised store/transport calls
    is_running,          \* RenderPinger.is_running
    start_at,            \* where RenderPinger.start() is: not called, in an await, returned
    pinged,              \* history: the outcome of each ping sent, in order
    since_stop           \* history: the sleeps begun and pings ended since stop()

bot == <<users, token_transactions, payments, today, fsm_state, fsm_data,
         tasks, reply, funds, paidSpent, freeCount, issued, given, faults>>

pinger == <<is_running, start_at, pinged, since_stop>>

vars == <<users, token_transactions, payments, today, fsm_state, fsm_data,
          tasks, reply, funds, paidSpent, freeCount, issued, given, faults,
          is_running, start_at, pinged, since_stop>>

ledger == <<users, token_transactions, payments>>
session == <<fsm_state, fsm_data>>
accounting == <<funds, paidSpent, freeCount, issued>>
history == <<funds, paidSpent, freeCount, issued, given>>

----------------------------------------------------------------------------
(* Bounds of the model *)
MaxDay == 1
MaxFaults == 1
MaxTasks == 1
MaxRecords == 3
MaxPayments == 2
MaxFaultRecords == 2
MaxFaultPayments == 1
PriorFree == 2
MaxRaceTasks == 2
MaxRaceRecords == 2
MaxRacePayments == 1
MaxSessionRecords == 1
MaxTwoRecords == 1
MaxTwoPayments == 1
MaxOutageFaults == 2
MaxSummaryRecords == 4

Users == {"u1", "u2"}
InitCredits == {0, 12}
TxnIds == {"txn-1", "txn-2"}
StarAmounts == {50, 100, 250, 500, 77, 1}

(* Program constants *)
FREE_DAILY_LIMIT == 3
FREE_ELIGIBLE_MAX_PRICE == 5

TokenCallbacks == {"api", "jwt", "uuid", "custom", "bulk"}

token_type_map ==
    [api |-> "api_key", jwt |-> "jwt", uuid |-> "uuid",
     custom |-> "custom", bulk |-> "bulk"]

PRICES ==
    [api_key |-> 5, jwt |-> 10, uuid |-> 3, custom |-> 8, bulk |-> 20]

CREDIT_PACKAGES == (50 :> 100) @@ (100 :> 250) @@ (250 :> 750) @@ (500 :> 2000)

------------------------------------------------------------------------\* the Telegram user of the bot itself: the from_user of call.message, the
\* message a callback button is attached to
Bot == "bot"

----
(* Python dict helpers *)
DictGet(d, k, default) == IF k \in DOMAIN d THEN d[k] ELSE default

DictUpdate(d, k, v) ==
    [x \in (DOMAIN d) \cup {k} |-> IF x = k THEN v ELSE d[x]]

EmptyDict == [x \in {} |-> 0]

Max(a, b) == IF a >= b THEN a ELSE b

\* supabase.table(..).insert(row): a table is the bag of its rows (the
\* timestamp columns are left out, so equal rows can repeat)
Insert(table, row) == table (+) SetToBag({row})

----------------------------------------------------------------------------
(* DatabaseManager *)

\* the row create_user inserts, which is also what the .get defaults of a
\* row-less fallback dict read as
NewUserRow(day) ==
    [credits |-> 0, tokens_generated |-> 0,
     free_tokens_used_today |-> 0, free_tokens_last_reset |-> day]

\* get_user: the row, or None when there is none or the select raises
get_user(db, id, ok) ==
    IF ok /\ id \in DOMAIN db
    THEN [found |-> TRUE, row |-> db[id]]
    ELSE [found |-> FALSE, row |-> NewUserRow(0)]

\* create_user: insert of a fresh row; an insert that raises (store error, or
\* the telegram_id already has a row) leaves the table as it is.  The caller
\* gets a dict that reads as NewUserRow either way.
create_user(db, id, day, ok) ==
    IF ok /\ id \notin DOMAIN db
    THEN [x \in (DOMAIN db) \cup {id} |-> IF x = id THEN NewUserRow(day) ELSE db[x]]
    ELSE db

NewCreditsUnclamped(credits, change) == credits + change

NewCreditsOverwrite(credits, change) ==
    IF change > 0 THEN change ELSE Max(0, credits + change)

NewCredits(credits, change) == Max(0, credits + change)

\* update_user_credits: [ok, users]
\* (variant for comparison: the update writes the whole row back as a fresh
\* one with the new balance)
update_user_credits_row(db, id, change, okGet, okUpd) ==
    LET user == get_user(db, id, okGet) IN
    IF ~user.found THEN [ok |-> FALSE, users |-> db]
    ELSE IF ~okUpd THEN [ok |-> FALSE, users |-> db]
    ELSE [ok |-> TRUE,
          users |-> [db EXCEPT ![id] =
                       [NewUserRow(0) EXCEPT
                          !.credits = NewCredits(user.row.credits, change)]]]

\* (variant for comparison: the update inserts the row when the user has none)
update_user_credits_upsert(db, id, change, okGet, okUpd) ==
    LET user == get_user(db, id, okGet)
        db0 == create_user(db, id, 0, TRUE)
    IN
    IF ~okGet \/ ~okUpd THEN [ok |-> FALSE, users |-> db]
    ELSE [ok |-> TRUE,
          users |-> [db0 EXCEPT ![id].credits = NewCredits(user.row.credits, change)]]

update_user_credits(db, id, change, okGet, okUpd) ==
    LET user == get_user(db, id, okGet) IN
    IF ~user.found THEN [ok |-> FALSE, users |-> db]
    ELSE IF ~okUpd THEN [ok |-> FALSE, users |-> db]
    ELSE [ok |-> TRUE,
          users |-> [db EXCEPT ![id].credits = NewCredits(user.row.credits, change)]]

\* record_token_generation: [ok, users, token_transactions]
record_token_generation(db, log, id, token_type, credits_used, okGet, okUpd, okIns) ==
    LET user == get_user(db, id, okGet)
        raised == user.found /\ ~okUpd
        db1 == IF user.found /\ okUpd
               THEN [db EXCEPT ![id].tokens_generated = user.row.tokens_generated + 1]
               ELSE db
        log1 == IF ~raised /\ okIns
                THEN Insert(log, [telegram_id |-> id, token_type |-> token_type,
                                  credits_used |-> credits_used])
                ELSE log
    IN [ok |-> ~raised /\ okIns, users |-> db1, token_transactions |-> log1]

\* record_payment: [ok, payments]
record_payment(log, id, stars_amount, credits_purchased, transaction_id, okIns) ==
    IF okIns
    THEN [ok |-> TRUE,
          payments |-> Insert(log, [telegram_id |-> id, stars_amount |-> stars_amount,
                                    credits_purchased |-> credits_purchased,
                                    transaction_id |-> transaction_id,
                                    status |-> "completed"])]
    ELSE [ok |-> FALSE, payments |-> log]

----------------------------------------------------------------------------
(* Entitlement: the funding decision of handle_token_selection and        *)
(* generate_and_send_token                                                 *)

effective_free_used_stored(row, day) == row.free_tokens_used_today

\* the lazy daily reset: the stored counter, read as 0 once the stored reset
\* date is before today
effective_free_used(row, day) ==
    IF row.free_tokens_last_reset < day THEN 0 ELSE row.free_tokens_used_today

has_free_token_loose(free_tokens_used) == free_tokens_used <= FREE_DAILY_LIMIT

\* has_free_token / using_free_token
has_free_token(free_tokens_used) == free_tokens_used < FREE_DAILY_LIMIT

insufficient_short(credits_have, credits_needed, free_tokens_used) ==
    credits_have < credits_needed

\* the denial test of handle_token_selection
insufficient(credits_have, credits_needed, free_tokens_used) ==
    credits_have < credits_needed /\ ~has_free_token(free_tokens_used)

free_funded_any(free_tokens_used, credits_used) ==
    has_free_token(free_tokens_used)

free_funded_never(free_tokens_used, credits_used) == FALSE

free_funded_strict(free_tokens_used, credits_used) ==
    has_free_token(free_tokens_used) /\ credits_used < FREE_ELIGIBLE_MAX_PRICE

\* the branch of generate_and_send_token that charges the free quota
free_funded(free_tokens_used, credits_used) ==
    has_free_token(free_tokens_used) /\ credits_used <= FREE_ELIGIBLE_MAX_PRICE

Cost(token_type) == PRICES[token_type_map[token_type]]

free_used_kept(free_tokens_used) == Max(1, free_tokens_used)

\* the counter the free branch stores: free_tokens_used + 1
free_used_after(free_tokens_used) == free_tokens_used + 1

Nothing == [credits |-> 0, free |-> 0]

----------------------------------------------------------------------------
(* TokenGenerator: a token is kept as the parameters it was generated     *)
(* from.  The characters are random; what the callers decide is the number *)
(* of random characters, the character set, the prefix, and for a JWT the  *)
(* claims of the caller and exp - iat in hours.                            *)
Token(length, include_special, prefix, claims, expires_hours) ==
    [length |-> length, include_special |-> include_special, prefix |-> prefix,
     claims |-> claims, expires_hours |-> expires_hours, count |-> 1]

\* no token: the try block raised before it generated one
NoToken == [Token(0, FALSE, "", EmptyDict, 0) EXCEPT !.count = 0]

\* the size of a bulk batch: range(10)
BulkSize == 10

\* "\n".join(tokens): n tokens of one generator in one result
join(n, token) == [token EXCEPT !.count = n]

\* range(length): the number of characters a generator draws
range(length) == IF length > 0 THEN length ELSE 0

\* generate_api_key(): 32 characters, no prefix
generate_api_key == Token(range(32), FALSE, "", EmptyDict, 0)

\* generate_uuid(): str(uuid.uuid4()), 36 characters
generate_uuid == Token(36, FALSE, "", EmptyDict, 0)

\* generate_custom_token(length, prefix, include_special)
generate_custom_token(length, prefix, include_special) ==
    Token(range(length), include_special, prefix, EmptyDict, 0)

\* generate_jwt(payload, expires_hours): the payload with iat and
\* exp = iat + expires_hours
generate_jwt(payload, expires_hours) ==
    Token(0, FALSE, "", payload, expires_hours)

\* payload.pop("exp_hours", 24) if "exp_hours" in payload else 24
pop_exp_hours(payload) ==
    [exp_hours |-> DictGet(payload, "exp_hours", 24),
     payload |-> [k \in (DOMAIN payload) \ {"exp_hours"} |-> payload[k]]]

\* the token generate_and_send_token builds for token_type from the draft
token_for(data, token_type) ==
    IF token_type = "jwt"
    THEN LET p == pop_exp_hours(DictGet(data, "jwt_payload", EmptyDict))
         IN generate_jwt(p.payload, p.exp_hours)
    ELSE IF token_type = "uuid" THEN generate_uuid
    ELSE IF token_type = "custom"
    THEN generate_custom_token(DictGet(data, "custom_length", 32),
                               DictGet(data, "custom_prefix", ""),
                               DictGet(data, "custom_charset", "ld") = "all")
    ELSE IF token_type = "bulk" THEN join(range(BulkSize), generate_api_key)
    ELSE generate_api_key

\* generate_and_send_token, from its entry to the await of message.answer:
\* [ok, users, token_transactions, charge, took, calls]; ok = FALSE when the
\* try block raised; charge is the branch of charge_text, took is what the
\* step took from the account, calls are the store calls the step made
generate_and_send_token(db, log, id, token_type, day, f) ==
    LET user == get_user(db, id, "gen_get" \notin f)
        free_tokens_used == effective_free_used(user.row, day)
        using_free_token == has_free_token(free_tokens_used)
        credits_used == Cost(token_type)
        free == free_funded(free_tokens_used, credits_used)
        raised == ~user.found \/ (free /\ "gen_free" \in f)
        db1 == IF free
               THEN [db EXCEPT ![id].free_tokens_used_today = free_used_after(free_tokens_used),
                               ![id].free_tokens_last_reset = day]
               ELSE update_user_credits(db, id, -credits_used,
                                        "deb_get" \notin f, "deb_upd" \notin f).users
        r == record_token_generation(db1, log, id, token_type,
                                     IF using_free_token THEN 0 ELSE credits_used,
                                     "rec_get" \notin f, "rec_upd" \notin f,
                                     "rec_ins" \notin f)
    IN  IF raised
        THEN [ok |-> FALSE, users |-> db, token_transactions |-> log,
              charge |-> "none", took |-> Nothing,
              calls |-> IF user.found THEN {"gen_get", "gen_free"} ELSE {"gen_get"}]
        ELSE [ok |-> TRUE, users |-> r.users,
              token_transactions |-> r.token_transactions,
              charge |-> IF free THEN "free" ELSE "credits",
              took |-> [credits |-> user.row.credits - db1[id].credits,
                        free |-> IF free THEN 1 ELSE 0],
              calls |-> {"gen_get", "rec_get", "rec_upd", "rec_ins"} \cup
                        (IF free THEN {"gen_free"} ELSE {"deb_get", "deb_upd"})]

GenFaults == {"gen_get", "gen_free", "deb_get", "deb_upd", "rec_get", "rec_upd", "rec_ins"}
SelFaults == {"sel_get", "sel_create", "answer"}
PayFaults == {"pay_get", "pay_upd", "pay_ins", "pay_bal", "answer"}
StartFaults == {"start_get", "start_create"}
StatusFaults == {"status_get", "status_create"}

\* the subsets of S of at most k members
RECURSIVE UpTo(_, _)
UpTo(S, k) ==
    IF k <= 0 THEN {{}}
    ELSE LET P == UpTo(S, k - 1) IN P \cup {p \cup {x} : p \in P, x \in S}

\* the sets of calls of one step that may raise, within a budget of k faults
FaultSets(S, k) == UpTo(S, k - faults)

\* a suspended handler: where it waits, its token_type and charge_text, and
\* (history) what its funding step took from the account
Task(id, pc, token_type, charge, took) ==
    [user |-> id, pc |-> pc, token_type |-> token_type, charge |-> charge,
     took |-> took, arg |-> "none", token |-> NoToken]

\* a suspended handler that holds a value to store when its message is sent
TaskWith(id, pc, token_type, arg) ==
    [Task(id, pc, token_type, "none", Nothing) EXCEPT !.arg = arg]

\* the messages that report an outcome: the denial of handle_token_selection
\* (cost and balance) and the two answers of successful_payment_handler
Message(to, text, token_type, cost, balance, stars, granted, txn) ==
    [to |-> to, text |-> text, kind |-> token_type,
     cost |-> cost, balance |-> balance, stars |-> stars, granted |-> granted,
     txn |-> txn, free_left |-> 0, total |-> 0]

\* the account status message of cmd_mycredits: credits, free tokens left
\* today, total tokens generated
Summary(to, balance, free_left, total) ==
    [Message(to, "summary", "none", 0, balance, 0, 0, "none")
       EXCEPT !.free_left = free_left, !.total = total]

NoMessage == Message("none", "none", "none", 0, 0, 0, 0, "none")

\* the handlers suspended in a transport call: a bag, since two requests of
\* one user can wait at the same place
Suspended == BagToSet(tasks)

Suspend(t) == tasks (+) SetToBag({t})

Resume(t) == tasks (-) SetToBag({t})

\* the row of an account, as get_user returns it
Account(db, id) == get_user(db, id, TRUE).row

\* history: the event of user id supplied value v for key k
Supplied(id, k, v) == [given EXCEPT ![id] = DictUpdate(@, k, v)]

\* the draft parameter a prompt asks a text for
PromptKeys ==
    [prefix |-> "custom_prefix", user |-> "user_id", email |-> "email",
     role |-> "role", expiry |-> "expiry"]

\* history: user id sent a text: it answers the prompt the user asked for
\* last, if one is still open
Answered(id, text) ==
    LET pending == DictGet(given[id], "pending", "None")
        rest == [k \in (DOMAIN given[id]) \ {"pending"} |-> given[id][k]]
    IN  IF pending = "None" THEN given
        ELSE [given EXCEPT ![id] = DictUpdate(rest, PromptKeys[pending], text)]

----------------------------------------------------------------------------
\* what a ping can meet: status 200, another status, an exception
PingOutcomes == {"200", "status", "raised"}

TypeOK ==
    /\ DOMAIN users \subseteq Users \cup {Bot}
    /\ \A u \in DOMAIN users :
          /\ users[u].credits \in Int
          /\ users[u].tokens_generated \in Nat
          /\ users[u].free_tokens_used_today \in Nat
          /\ users[u].free_tokens_last_reset \in 0..today
    /\ today \in Nat
    /\ fsm_state \in [Users -> {"None", "choosing_token_type", "customizing_token",
                                "entering_metadata"}]
    /\ \A t \in Suspended : t.user \in Users
    /\ faults \in Nat
    /\ is_running \in BOOLEAN
    /\ start_at \in {"idle", "startup_ping", "sleep", "ping", "done"}
    /\ pinged \in Seq(PingOutcomes)
    /\ since_stop.called \in BOOLEAN

----------------------------------------------------------------------------
(* Handlers *)

\* generate_and_send_token called from a handler: the funding step, after
\* which the handler waits in message.answer (the token, or the error text)
Generate(db, id, token_type, f) ==
    LET g == generate_and_send_token(db, token_transactions, id, token_type, today, f) IN
    /\ f \cap GenFaults \subseteq g.calls
    /\ users' = g.users
    /\ token_transactions' = g.token_transactions
    /\ tasks' = Suspend([Task(id, IF g.ok THEN "send_token" ELSE "send_error",
                                  token_type, g.charge, g.took)
                             EXCEPT !.token = IF g.ok THEN token_for(fsm_data[id], token_type)
                                              ELSE NoToken])
    /\ paidSpent' = IF g.ok /\ g.charge = "credits"
                    THEN [paidSpent EXCEPT ![id] = @ + Cost(token_type)] ELSE paidSpent
    /\ freeCount' = IF g.ok /\ g.charge = "free"
                    THEN [freeCount EXCEPT ![id] = @ + 1] ELSE freeCount
    /\ issued' = IF g.ok THEN issued + 1 ELSE issued

\* /start: create the account if there is none
cmd_start(id, f) ==
    /\ LET user == get_user(users, id, "start_get" \notin f) IN
       /\ "start_create" \in f => ~user.found
       /\ users' = IF user.found THEN users
                   ELSE create_user(users, id, today, "start_create" \notin f)
    /\ faults' = faults + Cardinality(f)
    /\ reply' = NoMessage
    /\ UNCHANGED <<token_transactions, payments, today, session, tasks, history>>

\* /gentoken and menu_gentoken: show_token_menu waits in message.answer
cmd_gentoken(id) ==
    /\ tasks' = Suspend(Task(id, "show_token_menu", "none", "none", Nothing))
    /\ reply' = NoMessage
    /\ UNCHANGED <<ledger, today, session, history, faults>>

\* free_tokens_left of cmd_mycredits
free_tokens_left(row, day) ==
    Max(0, FREE_DAILY_LIMIT - effective_free_used(row, day))

\* the body of cmd_mycredits for a message whose from_user is `from_user`,
\* answered in the chat of `chat`: the account is created if there is none,
\* and its status is sent
account_status(from_user, chat, f) ==
    LET found == get_user(users, from_user, "status_get" \notin f)
        user == IF found.found THEN found.row ELSE NewUserRow(today)
    IN
    /\ "status_create" \in f => ~found.found
    /\ users' = IF found.found THEN users
                ELSE create_user(users, from_user, today, "status_create" \notin f)
    /\ reply' = Summary(chat, user.credits, free_tokens_left(user, today),
                        user.tokens_generated)

\* /mycredits
cmd_mycredits(id, f) ==
    /\ account_status(id, id, f)
    /\ faults' = faults + Cardinality(f)
    /\ UNCHANGED <<token_transactions, payments, today, session, tasks, history>>

MenuCallbacks == {"gentoken", "buy", "help", "credits", "main"}

\* callback menu_<menu>: the command handlers are called with call.message,
\* so cmd_mycredits and cmd_start look up and create the account of Bot;
\* cmd_buycredits and cmd_help only send a message
handle_menu(id, menu) ==
    /\ menu \in MenuCallbacks
    /\ IF menu = "gentoken"
       THEN /\ tasks' = Suspend(Task(id, "show_token_menu", "none", "none", Nothing))
            /\ reply' = NoMessage
            /\ UNCHANGED users
       ELSE IF menu = "credits"
       THEN /\ account_status(Bot, id, {})
            /\ UNCHANGED tasks
       ELSE IF menu = "main"
       THEN /\ users' = IF get_user(users, Bot, TRUE).found THEN users
                         ELSE create_user(users, Bot, today, TRUE)
            /\ reply' = NoMessage
            /\ UNCHANGED tasks
       ELSE /\ reply' = NoMessage
            /\ UNCHANGED <<users, tasks>>
    /\ UNCHANGED <<token_transactions, payments, today, session, history, faults>>

\* callback token_<kind>
handle_token_selection(id, callback_data, f) ==
    LET found == get_user(users, id, "sel_get" \notin f)
        db == IF found.found THEN users
              ELSE create_user(users, id, today, "sel_create" \notin f)
        user == IF found.found THEN found.row ELSE NewUserRow(today)
        token_type == callback_data
        credits_needed == Cost(token_type)
        credits_have == user.credits
        free_tokens_used == effective_free_used(user, today)
    IN
    /\ "sel_create" \in f => ~found.found
    /\ faults' = faults + Cardinality(f)
    /\ IF insufficient(credits_have, credits_needed, free_tokens_used)
       THEN /\ f \cap GenFaults = {}
            /\ users' = db
            /\ reply' = IF "answer" \in f THEN NoMessage
                        ELSE Message(id, "insufficient", token_type,
                                     credits_needed, credits_have, 0, 0, "none")
            /\ UNCHANGED <<token_transactions, tasks, session, paidSpent, freeCount, issued>>
       ELSE /\ "answer" \notin f
            /\ fsm_data' = [fsm_data EXCEPT ![id] = DictUpdate(@, "token_type", token_type)]
            /\ UNCHANGED fsm_state
            /\ reply' = NoMessage
            /\ IF token_type = "custom"
               THEN /\ f \cap GenFaults = {}
                    /\ users' = db
                    /\ tasks' = Suspend(Task(id, "ask_customization", token_type, "none", Nothing))
                    /\ UNCHANGED <<token_transactions, paidSpent, freeCount, issued>>
               ELSE IF token_type = "jwt"
               THEN /\ f \cap GenFaults = {}
                    /\ users' = db
                    /\ tasks' = Suspend(Task(id, "ask_jwt_metadata", token_type, "none", Nothing))
                    /\ UNCHANGED <<token_transactions, paidSpent, freeCount, issued>>
               ELSE Generate(db, id, token_type, f)
    /\ given' = IF insufficient(credits_have, credits_needed, free_tokens_used)
                THEN given ELSE [given EXCEPT ![id] = EmptyDict]
    /\ UNCHANGED <<payments, today, funds>>

\* the callbacks custom_<option>: custom_len_<n> is read with int(), so it
\* carries any integer; the menu offers 32 and 64
CustomLengths ==
    ("custom_len_32" :> 32) @@ ("custom_len_64" :> 64) @@
    ("custom_len_0" :> 0) @@ ("custom_len_-5" :> -5)

CustomCharsets == ("custom_chars_ld" :> "ld") @@ ("custom_chars_all" :> "all")

CustomCallbacks ==
    (DOMAIN CustomLengths) \cup (DOMAIN CustomCharsets) \cup
    {"custom_prefix", "custom_generate"}

\* the option buttons of the customization menu
CustomButtons ==
    {"custom_len_32", "custom_len_64", "custom_chars_ld", "custom_chars_all",
     "custom_prefix"}

\* callback custom_<option>: a length or a character set is stored in the
\* draft before the menu text is edited; custom_prefix waits in
\* message.answer; custom_generate calls generate_and_send_token
handle_customization(id, data, f) ==
    /\ data \in CustomCallbacks
    /\ faults' = faults + Cardinality(f)
    /\ reply' = NoMessage
    /\ IF data = "custom_generate"
       THEN /\ Generate(users, id, "custom", f)
            /\ UNCHANGED <<payments, today, session, funds, given>>
       ELSE /\ f = {}
            /\ IF data \in DOMAIN CustomLengths
               THEN /\ fsm_data' = [fsm_data EXCEPT ![id] =
                                      DictUpdate(@, "custom_length", CustomLengths[data])]
                    /\ given' = Supplied(id, "custom_length", CustomLengths[data])
                    /\ UNCHANGED <<fsm_state, tasks>>
               ELSE IF data \in DOMAIN CustomCharsets
               THEN /\ fsm_data' = [fsm_data EXCEPT ![id] =
                                      DictUpdate(@, "custom_charset", CustomCharsets[data])]
                    /\ given' = Supplied(id, "custom_charset", CustomCharsets[data])
                    /\ UNCHANGED <<fsm_state, tasks>>
               ELSE /\ tasks' = Suspend(Task(id, "ask_prefix", "custom", "none", Nothing))
                    /\ given' = Supplied(id, "pending", "prefix")
                    /\ UNCHANGED session
            /\ UNCHANGED <<ledger, today, accounting>>

\* the claims the JWT menu asks a value for
JwtClaims == {"user", "email", "role", "expiry"}

JwtCallbacks == JwtClaims \cup {"generate"}

\* callback jwt_<action>: a claim button waits in message.answer(prompt);
\* jwt_generate calls generate_and_send_token
handle_jwt_metadata(id, action, f) ==
    /\ action \in JwtCallbacks
    /\ faults' = faults + Cardinality(f)
    /\ reply' = NoMessage
    /\ IF action = "generate"
       THEN /\ Generate(users, id, "jwt", f)
            /\ UNCHANGED <<payments, today, session, funds, given>>
       ELSE /\ f = {}
            /\ tasks' = Suspend(TaskWith(id, "jwt_prompt", "jwt", action))
            /\ given' = Supplied(id, "pending", action)
            /\ UNCHANGED <<ledger, today, session, accounting>>

\* the texts a user sends
Texts == {"sk_", "48", "9999"}

\* int(text), for the texts that are numbers
Numbers == ("48" :> 48) @@ ("9999" :> 9999)

Min(a, b) == IF a <= b THEN a ELSE b

\* the expiry stored for a text: int(text) clamped to 1..720, 24 when int
\* raises
exp_hours_of(text) ==
    IF text \in DOMAIN Numbers THEN Min(Max(1, Numbers[text]), 720) ELSE 24

\* the payload after the claim of jwt_action is set from the text
payload_with(payload, action, text) ==
    IF action = "user" THEN DictUpdate(payload, "user_id", text)
    ELSE IF action = "email" THEN DictUpdate(payload, "email", text)
    ELSE IF action = "role" THEN DictUpdate(payload, "role", text)
    ELSE IF action = "expiry" THEN DictUpdate(payload, "exp_hours", exp_hours_of(text))
    ELSE payload

\* a text message while the state is entering_metadata: the value is stored
\* in the draft, then the handler waits in message.answer
handle_metadata_input(id, text) ==
    LET data == fsm_data[id]
        token_type == DictGet(data, "token_type", "None")
    IN
    /\ fsm_state[id] = "entering_metadata"
    /\ IF token_type = "custom" /\ DictGet(data, "waiting_for", "None") = "prefix"
       THEN /\ fsm_data' = [fsm_data EXCEPT ![id] = DictUpdate(@, "custom_prefix", text)]
            /\ tasks' = Suspend(Task(id, "metadata_ack", "custom", "none", Nothing))
       ELSE IF token_type = "jwt"
       THEN /\ fsm_data' = [fsm_data EXCEPT ![id] =
                              DictUpdate(@, "jwt_payload",
                                 payload_with(DictGet(data, "jwt_payload", EmptyDict),
                                              DictGet(data, "jwt_action", "None"), text))]
            /\ tasks' = Suspend(Task(id, "metadata_ack", "jwt", "none", Nothing))
       ELSE /\ fsm_data' = [fsm_data EXCEPT ![id] = DictUpdate(@, "waiting_for", "None")]
            /\ UNCHANGED tasks
    /\ given' = Answered(id, text)
    /\ reply' = NoMessage
    /\ UNCHANGED <<ledger, today, fsm_state, accounting, faults>>

\* get_user_credits: the balance, 0 when get_user gives None
get_user_credits(db, id, ok) ==
    LET user == get_user(db, id, ok) IN IF user.found THEN user.row.credits ELSE 0

credits_flat(stars_amount) == stars_amount * 2

\* CREDIT_PACKAGES.get(stars_amount, stars_amount * 2)
credits_for(stars_amount) ==
    IF stars_amount \in DOMAIN CREDIT_PACKAGES
    THEN CREDIT_PACKAGES[stars_amount] ELSE stars_amount * 2

\* a successful_payment message
successful_payment_handler(id, stars_amount, transaction_id, f) ==
    LET credits_purchased == credits_for(stars_amount)
        upd == update_user_credits(users, id, credits_purchased,
                                   "pay_get" \notin f, "pay_upd" \notin f)
        rp == record_payment(payments, id, stars_amount, credits_purchased,
                             transaction_id, "pay_ins" \notin f)
    IN
    /\ "pay_upd" \in f => id \in DOMAIN users /\ "pay_get" \notin f
    /\ "pay_ins" \in f => upd.ok
    /\ "pay_bal" \in f => upd.ok /\ "answer" \notin f
    /\ faults' = faults + Cardinality(f)
    /\ users' = upd.users
    /\ payments' = IF upd.ok THEN rp.payments ELSE payments
    /\ funds' = IF upd.ok THEN [funds EXCEPT ![id] = @ + credits_purchased] ELSE funds
    /\ UNCHANGED given
    /\ reply' = IF "answer" \in f THEN NoMessage
                ELSE IF upd.ok
                THEN Message(id, "payment_ok", "none", 0,
                             get_user_credits(upd.users, id, "pay_bal" \notin f),
                             stars_amount,
                             credits_purchased, transaction_id)
                ELSE Message(id, "payment_failed", "none", 0, 0, 0, 0, "none")
    /\ UNCHANGED <<token_transactions, today, session, tasks, paidSpent, freeCount, issued>>

----------------------------------------------------------------------------
(* Continuations: a transport await returns or raises *)

ClearAll(id) ==
    /\ fsm_state' = [u \in Users |-> "None"]
    /\ fsm_data' = [u \in Users |-> EmptyDict]
    /\ given' = [u \in Users |-> EmptyDict]

\* state.clear(); the flow of the user is over (history)
Clear(id) ==
    /\ fsm_state' = [fsm_state EXCEPT ![id] = "None"]
    /\ fsm_data' = [fsm_data EXCEPT ![id] = EmptyDict]
    /\ given' = [given EXCEPT ![id] = EmptyDict]

\* a transport call that raises counts as a fault
Transport(ok) == faults' = IF ok THEN faults ELSE faults + 1

\* show_token_menu after its message.answer
show_token_menu(t, ok) ==
    /\ t \in Suspended /\ t.pc = "show_token_menu"
    /\ Transport(ok)
    /\ tasks' = Resume(t)
    /\ IF ok
       THEN /\ fsm_state' = [fsm_state EXCEPT ![t.user] = "choosing_token_type"]
            /\ UNCHANGED fsm_data
       ELSE UNCHANGED session
    /\ reply' = NoMessage
    /\ UNCHANGED <<ledger, today, history>>

\* ask_customization after its message.answer
ask_customization(t, ok) ==
    /\ t \in Suspended /\ t.pc = "ask_customization"
    /\ Transport(ok)
    /\ tasks' = Resume(t)
    /\ IF ok
       THEN /\ fsm_state' = [fsm_state EXCEPT ![t.user] = "customizing_token"]
            /\ fsm_data' = [fsm_data EXCEPT ![t.user] =
                              DictUpdate(DictUpdate(DictUpdate(@,
                                  "custom_length", 32),
                                  "custom_charset", "ld"),
                                  "custom_prefix", "")]
       ELSE UNCHANGED session
    /\ reply' = NoMessage
    /\ UNCHANGED <<ledger, today, history>>

\* handle_customization (custom_prefix) after its message.answer
ask_prefix(t, ok) ==
    /\ t \in Suspended /\ t.pc = "ask_prefix"
    /\ Transport(ok)
    /\ tasks' = Resume(t)
    /\ IF ok
       THEN /\ fsm_data' = [fsm_data EXCEPT ![t.user] = DictUpdate(@, "waiting_for", "prefix")]
            /\ fsm_state' = [fsm_state EXCEPT ![t.user] = "entering_metadata"]
       ELSE UNCHANGED session
    /\ reply' = NoMessage
    /\ UNCHANGED <<ledger, today, history>>

\* ask_jwt_metadata after its message.answer
ask_jwt_metadata(t, ok) ==
    /\ t \in Suspended /\ t.pc = "ask_jwt_metadata"
    /\ Transport(ok)
    /\ tasks' = Resume(t)
    /\ IF ok
       THEN /\ fsm_state' = [fsm_state EXCEPT ![t.user] = "entering_metadata"]
            /\ fsm_data' = [fsm_data EXCEPT ![t.user] =
                              DictUpdate(@, "jwt_payload", [sample |-> "data"])]
       ELSE UNCHANGED session
    /\ reply' = NoMessage
    /\ UNCHANGED <<ledger, today, history>>

\* handle_jwt_metadata (a claim button) after its message.answer(prompt)
jwt_prompt(t, ok) ==
    /\ t \in Suspended /\ t.pc = "jwt_prompt"
    /\ Transport(ok)
    /\ tasks' = Resume(t)
    /\ IF ok
       THEN /\ fsm_data' = [fsm_data EXCEPT ![t.user] = DictUpdate(@, "jwt_action", t.arg)]
            /\ UNCHANGED fsm_state
       ELSE UNCHANGED session
    /\ reply' = NoMessage
    /\ UNCHANGED <<ledger, today, history>>

\* handle_metadata_input after its message.answer: it calls ask_customization
\* or ask_jwt_metadata, which waits in message.answer
metadata_ack(t, ok) ==
    /\ t \in Suspended /\ t.pc = "metadata_ack"
    /\ Transport(ok)
    /\ tasks' = IF ok THEN Resume(t) (+) SetToBag({[t EXCEPT !.pc = "metadata_menu"]})
                ELSE Resume(t)
    /\ reply' = NoMessage
    /\ UNCHANGED <<ledger, today, session, history>>

\* handle_metadata_input after the message.answer of ask_customization or
\* ask_jwt_metadata: the menu sets the state and the defaults of the draft,
\* then the handler clears waiting_for
metadata_menu(t, ok) ==
    /\ t \in Suspended /\ t.pc = "metadata_menu"
    /\ Transport(ok)
    /\ tasks' = Resume(t)
    /\ IF ~ok THEN UNCHANGED session
       ELSE IF t.token_type = "custom"
       THEN /\ fsm_state' = [fsm_state EXCEPT ![t.user] = "customizing_token"]
            /\ fsm_data' = [fsm_data EXCEPT ![t.user] =
                              DictUpdate(DictUpdate(DictUpdate(DictUpdate(@,
                                  "custom_length", 32),
                                  "custom_charset", "ld"),
                                  "custom_prefix", ""),
                                  "waiting_for", "None")]
       ELSE /\ fsm_state' = [fsm_state EXCEPT ![t.user] = "entering_metadata"]
            /\ fsm_data' = [fsm_data EXCEPT ![t.user] =
                              DictUpdate(DictUpdate(@,
                                  "jwt_payload", [sample |-> "data"]),
                                  "waiting_for", "None")]
    /\ reply' = NoMessage
    /\ UNCHANGED <<ledger, today, history>>

\* generate_and_send_token after message.answer(response): the token has
\* reached the user, or the call raised and the except block runs
send_token(t, ok) ==
    /\ t \in Suspended /\ t.pc = "send_token"
    /\ Transport(ok)
    /\ reply' = NoMessage
    /\ IF ok /\ t.token_type = "bulk"
       THEN /\ tasks' = Resume(t)
            /\ Clear(t.user)
       ELSE /\ tasks' = Resume(t) (+) SetToBag(
                          {[t EXCEPT !.pc = IF ok THEN "send_copy" ELSE "send_error"]})
            /\ UNCHANGED <<session, given>>
    /\ UNCHANGED <<ledger, today, accounting>>

\* generate_and_send_token after message.answer("Click to copy:")
send_copy(t, ok) ==
    /\ t \in Suspended /\ t.pc = "send_copy"
    /\ Transport(ok)
    /\ IF ok
       THEN /\ tasks' = Resume(t)
            /\ Clear(t.user)
       ELSE /\ tasks' = Resume(t) (+) SetToBag({[t EXCEPT !.pc = "send_error"]})
            /\ UNCHANGED <<session, given>>
    /\ reply' = NoMessage
    /\ UNCHANGED <<ledger, today, accounting>>

\* the except block of generate_and_send_token after its message.answer
send_error(t, ok) ==
    /\ t \in Suspended /\ t.pc = "send_error"
    /\ Transport(ok)
    /\ tasks' = Resume(t)
    /\ reply' = NoMessage
    /\ IF ok THEN Clear(t.user) ELSE UNCHANGED <<session, given>>
    /\ UNCHANGED <<ledger, today, accounting>>

\* the UTC date changes
AdvanceDay ==
    /\ today' = today + 1
    /\ freeCount' = [u \in Users |-> 0]
    /\ reply' = NoMessage
    /\ UNCHANGED <<ledger, session, tasks, funds, paidSpent, issued, given, faults>>

----------------------------------------------------------------------------
(* RenderPinger *)

\* ping(): True for status 200; False for another status and for an
\* exception, which ping catches
ping(outcome) == outcome = "200"

\* (variant for comparison: while True)
while_true(running) == TRUE

\* the test of the loop of start(): while self.is_running
while_running(running) == running

\* __init__: is_running = False, start() not called
Constructed ==
    /\ is_running = FALSE
    /\ start_at = "idle"
    /\ pinged = <<>>
    /\ since_stop = [called |-> FALSE, sleeps |-> 0, pings |-> 0]

\* start() up to its first await: is_running = True, then the immediate ping
start ==
    /\ start_at = "idle"
    /\ is_running' = TRUE
    /\ start_at' = "startup_ping"
    /\ UNCHANGED <<pinged, since_stop, bot>>

\* a ping of start() returns (the immediate one, or one of the loop): its
\* result is dropped and the loop test decides between the next sleep and
\* the end of start()
ping_returns(outcome) ==
    /\ start_at \in {"startup_ping", "ping"}
    /\ pinged' = Append(pinged, outcome)
    /\ start_at' = IF while_running(is_running) THEN "sleep" ELSE "done"
    /\ since_stop' = IF since_stop.called
                     THEN [since_stop EXCEPT
                             !.pings = @ + 1,
                             !.sleeps = IF while_running(is_running) THEN @ + 1 ELSE @]
                     ELSE since_stop
    /\ UNCHANGED <<is_running, bot>>

\* asyncio.sleep(interval_seconds) returns: the ping of this cycle is sent
sleep_returns ==
    /\ start_at = "sleep"
    /\ start_at' = "ping"
    /\ UNCHANGED <<is_running, pinged, since_stop, bot>>

\* the task of start() is cancelled in one of its awaits: the loop breaks on
\* CancelledError, and the immediate ping lets it propagate
cancelled ==
    /\ start_at \in {"startup_ping", "sleep", "ping"}
    /\ start_at' = "done"
    /\ UNCHANGED <<is_running, pinged, since_stop, bot>>

\* stop(): is_running = False
stop ==
    /\ start_at # "idle"
    /\ ~since_stop.called
    /\ is_running' = FALSE
    /\ since_stop' = [since_stop EXCEPT !.called = TRUE]
    /\ UNCHANGED <<start_at, pinged, bot>>

----------------------------------------------------------------------------
(* The events of a run and its bounds.  A scope B gives the users who send *)
(* events, the payment amounts and transaction ids that arrive, and the    *)
(* bounds: issuances funded, payments recorded, raised calls, handlers     *)
(* suspended at once, and day changes.                                     *)

Room(B) == BagCardinality(tasks) < B.tasks

Within(B) == issued' <= B.records

Start(B) ==
    /\ \E id \in B.users : \E f \in FaultSets(StartFaults, B.faults) : cmd_start(id, f)
    /\ UNCHANGED pinger

GenToken(B) ==
    /\ \E id \in B.users : BagCardinality(tasks) < B.tasks /\ cmd_gentoken(id)
    /\ UNCHANGED pinger

MyCredits(B) ==
    /\ \E id \in B.users : \E f \in FaultSets(StatusFaults, B.faults) : cmd_mycredits(id, f)
    /\ UNCHANGED pinger

MenuNav(B) ==
    /\ \E id \in B.users : \E menu \in MenuCallbacks :
          BagCardinality(tasks) < B.tasks /\ handle_menu(id, menu)
    /\ UNCHANGED pinger

TokenSelection(B) ==
    /\ \E id \in B.users : \E cb \in B.kinds :
          \E f \in FaultSets(SelFaults \cup GenFaults, B.faults) :
             Room(B) /\ handle_token_selection(id, cb, f) /\ Within(B)
    /\ UNCHANGED pinger

CustomGenerate(B) ==
    /\ \E id \in B.users : \E f \in FaultSets(GenFaults, B.faults) :
          Room(B) /\ handle_customization(id, "custom_generate", f) /\ Within(B)
    /\ UNCHANGED pinger

CustomOption(B) ==
    /\ \E id \in B.users : \E data \in B.options :
          Room(B) /\ handle_customization(id, data, {})
    /\ UNCHANGED pinger

JwtGenerate(B) ==
    /\ \E id \in B.users : \E f \in FaultSets(GenFaults, B.faults) :
          Room(B) /\ handle_jwt_metadata(id, "generate", f) /\ Within(B)
    /\ UNCHANGED pinger

Payment(B) ==
    /\ \E id \in B.users : \E s \in B.stars : \E x \in B.txns :
          \E f \in FaultSets(PayFaults, B.faults) :
             /\ BagCardinality(payments) < B.payments
             /\ successful_payment_handler(id, s, x, f)
    /\ UNCHANGED pinger

Returns(B) == IF faults < B.faults THEN BOOLEAN ELSE {TRUE}

MenuShown(B) ==
    /\ \E t \in Suspended : \E ok \in Returns(B) : show_token_menu(t, ok)
    /\ UNCHANGED pinger

CustomMenuShown(B) ==
    /\ \E t \in Suspended : \E ok \in Returns(B) : ask_customization(t, ok)
    /\ UNCHANGED pinger

PrefixAsked(B) ==
    /\ \E t \in Suspended : \E ok \in Returns(B) : ask_prefix(t, ok)
    /\ UNCHANGED pinger

JwtOption(B) ==
    /\ \E id \in B.users : \E action \in B.claims :
          Room(B) /\ handle_jwt_metadata(id, action, {})
    /\ UNCHANGED pinger

MetadataInput(B) ==
    /\ \E id \in B.users : \E text \in B.texts : Room(B) /\ handle_metadata_input(id, text)
    /\ UNCHANGED pinger

JwtPrompted(B) ==
    /\ \E t \in Suspended : \E ok \in Returns(B) : jwt_prompt(t, ok)
    /\ UNCHANGED pinger

MetadataAcked(B) ==
    /\ \E t \in Suspended : \E ok \in Returns(B) : metadata_ack(t, ok)
    /\ UNCHANGED pinger

MetadataMenuShown(B) ==
    /\ \E t \in Suspended : \E ok \in Returns(B) : metadata_menu(t, ok)
    /\ UNCHANGED pinger

JwtMenuShown(B) ==
    /\ \E t \in Suspended : \E ok \in Returns(B) : ask_jwt_metadata(t, ok)
    /\ UNCHANGED pinger

TokenSent(B) ==
    /\ \E t \in Suspended : \E ok \in Returns(B) : send_token(t, ok)
    /\ UNCHANGED pinger

CopySent(B) ==
    /\ \E t \in Suspended : \E ok \in Returns(B) : send_copy(t, ok)
    /\ UNCHANGED pinger

ErrorSent(B) ==
    /\ \E t \in Suspended : \E ok \in Returns(B) : send_error(t, ok)
    /\ UNCHANGED pinger

NewDay(B) ==
    /\ today < B.days /\ AdvanceDay
    /\ UNCHANGED pinger

Scope(U, stars, txns, records, pays, nfaults, ntasks, days) ==
    [users |-> U, stars |-> stars, txns |-> txns, records |-> records,
     payments |-> pays, faults |-> nfaults, tasks |-> ntasks, days |-> days,
     kinds |-> TokenCallbacks, options |-> CustomButtons,
     claims |-> JwtClaims, texts |-> Texts]

\* the scope B with only some of the buttons pressed and texts sent
Only(B, kinds, options, claims, texts) ==
    [B EXCEPT !.kinds = kinds, !.options = options, !.claims = claims,
              !.texts = texts]

\* The store before the run: each user of U has no account, or an account
\* with a balance of `credits` that has issued `used` free API keys today
\* (each with its GenerationRecord); nobody is in a conversation.
InitOver(U, credits, used) ==
    /\ \E present \in SUBSET U :
          \E c \in [present -> credits] : \E n \in [present -> used] :
             /\ users = [u \in present |->
                           [credits |-> c[u], tokens_generated |-> n[u],
                            free_tokens_used_today |-> n[u],
                            free_tokens_last_reset |-> 0]]
             /\ token_transactions =
                   [r \in {[telegram_id |-> u, token_type |-> "api", credits_used |-> 0] :
                              u \in {v \in present : n[v] > 0}} |-> n[r.telegram_id]]
             /\ funds = [u \in Users |-> IF u \in present THEN c[u] ELSE 0]
             /\ freeCount = [u \in Users |-> IF u \in present THEN n[u] ELSE 0]
    /\ payments = EmptyBag
    /\ today = 0
    /\ fsm_state = [u \in Users |-> "None"]
    /\ fsm_data = [u \in Users |-> EmptyDict]
    /\ tasks = EmptyBag
    /\ reply = NoMessage
    /\ paidSpent = [u \in Users |-> 0]
    /\ issued = 0
    /\ given = [u \in Users |-> EmptyDict]
    /\ faults = 0
    /\ Constructed

----------------------------------------------------------------------------
(* Spec: one user whose account is new or absent; every kind of token, a   *)
(* payment and its redelivery, a day change; no call raises.               *)
One == Scope({"u1"}, {50}, {"txn-1"}, MaxRecords, MaxPayments, 0, MaxTasks, MaxDay)

Init == InitOver({"u1"}, InitCredits, {0})

Next ==
    \/ Start(One)
    \/ GenToken(One)
    \/ TokenSelection(One)
    \/ CustomGenerate(One)
    \/ JwtGenerate(One)
    \/ Payment(One)
    \/ MenuShown(One)
    \/ CustomMenuShown(One)
    \/ JwtMenuShown(One)
    \/ TokenSent(One)
    \/ CopySent(One)
    \/ ErrorSent(One)
    \/ NewDay(One)

Spec == Init /\ [][Next]_vars

(* SpecFaults: one user who has used part of today's free quota; store and *)
(* transport calls may raise.                                              *)
Faulty ==
    Scope({"u1"}, {50}, {"txn-1"}, MaxFaultRecords, MaxFaultPayments, MaxFaults,
          MaxTasks, MaxDay)

InitFaults == InitOver({"u1"}, InitCredits, {PriorFree})

NextFaults ==
    \/ Start(Faulty)
    \/ GenToken(Faulty)
    \/ TokenSelection(Faulty)
    \/ CustomGenerate(Faulty)
    \/ JwtGenerate(Faulty)
    \/ Payment(Faulty)
    \/ MenuShown(Faulty)
    \/ CustomMenuShown(Faulty)
    \/ JwtMenuShown(Faulty)
    \/ TokenSent(Faulty)
    \/ CopySent(Faulty)
    \/ ErrorSent(Faulty)
    \/ NewDay(Faulty)

SpecFaults == InitFaults /\ [][NextFaults]_vars

(* SpecPay: payment confirmations of every amount for one user, delivered  *)
(* once or again; store calls may raise.                                   *)
Paying ==
    Scope({"u1"}, StarAmounts, TxnIds, 0, MaxPayments, MaxFaults, MaxTasks, 0)

InitPay == InitOver({"u1"}, InitCredits, {0})

NextPay ==
    \/ Start(Paying)
    \/ Payment(Paying)

SpecPay == InitPay /\ [][NextPay]_vars

(* SpecRace: one user with two requests in flight at once: a second       *)
(* handler runs while the first waits in a transport call; no call raises. *)
Racing ==
    Scope({"u1"}, {50}, {"txn-1"}, MaxRaceRecords, MaxRacePayments, 0,
          MaxRaceTasks, 0)

InitRace == InitOver({"u1"}, InitCredits, {0})

NextRace ==
    \/ Start(Racing)
    \/ GenToken(Racing)
    \/ TokenSelection(Racing)
    \/ CustomGenerate(Racing)
    \/ JwtGenerate(Racing)
    \/ Payment(Racing)
    \/ MenuShown(Racing)
    \/ CustomMenuShown(Racing)
    \/ JwtMenuShown(Racing)
    \/ TokenSent(Racing)
    \/ CopySent(Racing)
    \/ ErrorSent(Racing)

SpecRace == InitRace /\ [][NextRace]_vars

(* SpecSession: one user going through the menus, the custom options     *)
(* included, with one issuance; no call raises.                            *)
Browsing == Scope({"u1"}, {50}, {"txn-1"}, MaxSessionRecords, 0, 0, MaxTasks, 0)

InitSession == InitOver({"u1"}, InitCredits, {0})

NextSession ==
    \/ Start(Browsing)
    \/ GenToken(Browsing)
    \/ TokenSelection(Browsing)
    \/ CustomOption(Browsing)
    \/ CustomGenerate(Browsing)
    \/ JwtGenerate(Browsing)
    \/ MenuShown(Browsing)
    \/ CustomMenuShown(Browsing)
    \/ PrefixAsked(Browsing)
    \/ JwtMenuShown(Browsing)
    \/ TokenSent(Browsing)
    \/ CopySent(Browsing)
    \/ ErrorSent(Browsing)

SpecSession == InitSession /\ [][NextSession]_vars

(* SpecDayRace: one user who has used part of the free quota, with two    *)
(* issuance requests in flight at once, before and after a day change; no  *)
(* call raises.                                                            *)
DayRacing ==
    Scope({"u1"}, {50}, {"txn-1"}, MaxRaceRecords, 0, 0, MaxRaceTasks, MaxDay)

InitDayRace == InitOver({"u1"}, InitCredits, {PriorFree})

NextDayRace ==
    \/ Start(DayRacing)
    \/ TokenSelection(DayRacing)
    \/ CustomGenerate(DayRacing)
    \/ JwtGenerate(DayRacing)
    \/ CustomMenuShown(DayRacing)
    \/ JwtMenuShown(DayRacing)
    \/ TokenSent(DayRacing)
    \/ CopySent(DayRacing)
    \/ ErrorSent(DayRacing)
    \/ NewDay(DayRacing)

SpecDayRace == InitDayRace /\ [][NextDayRace]_vars

(* SpecTwo: two users.  The first sends every kind of event: commands,   *)
(* menu buttons, selections, options, texts, generate events and payments; *)
(* the second                                                              *)
(* opens the menu and selects a kind; no call raises.                      *)
Acting ==
    Only(Scope({"u1"}, {50}, {"txn-1"}, MaxTwoRecords, MaxTwoPayments, 0, MaxTasks, 0),
         {"api", "custom", "jwt"}, {"custom_prefix"}, {"expiry"}, {"48"})

Other ==
    Only(Scope({"u2"}, {50}, {"txn-1"}, MaxTwoRecords, MaxTwoPayments, 0, MaxTasks, 0),
         {"api"}, {}, {}, {})

InitTwo == InitOver(Users, {12}, {0}) /\ "u2" \in DOMAIN users

NextTwo ==
    \/ Start(Acting)
    \/ GenToken(Acting)
    \/ MenuNav(Acting)
    \/ TokenSelection(Acting)
    \/ CustomOption(Acting)
    \/ CustomGenerate(Acting)
    \/ JwtOption(Acting)
    \/ JwtGenerate(Acting)
    \/ MetadataInput(Acting)
    \/ Payment(Acting)
    \/ GenToken(Other)
    \/ TokenSelection(Other)
    \/ MenuShown(Acting)
    \/ CustomMenuShown(Acting)
    \/ PrefixAsked(Acting)
    \/ JwtMenuShown(Acting)
    \/ JwtPrompted(Acting)
    \/ MetadataAcked(Acting)
    \/ MetadataMenuShown(Acting)
    \/ TokenSent(Acting)
    \/ CopySent(Acting)
    \/ ErrorSent(Acting)

SpecTwo == InitTwo /\ [][NextTwo]_vars

(* SpecCustom: one user in the custom-token flow: the length and          *)
(* character-set buttons, the prefix sub-dialog and the generate button;   *)
(* no call raises.                                                         *)
Customizing ==
    Only(Scope({"u1"}, {50}, {"txn-1"}, MaxSessionRecords, 0, 0, MaxTasks, 0),
         {"custom"}, CustomButtons, {}, {"sk_"})

InitCustom == InitOver({"u1"}, {12}, {0})

NextCustom ==
    \/ GenToken(Customizing)
    \/ TokenSelection(Customizing)
    \/ CustomOption(Customizing)
    \/ CustomGenerate(Customizing)
    \/ MetadataInput(Customizing)
    \/ MenuShown(Customizing)
    \/ CustomMenuShown(Customizing)
    \/ PrefixAsked(Customizing)
    \/ MetadataAcked(Customizing)
    \/ MetadataMenuShown(Customizing)
    \/ TokenSent(Customizing)
    \/ CopySent(Customizing)
    \/ ErrorSent(Customizing)

SpecCustom == InitCustom /\ [][NextCustom]_vars

(* SpecJwt: one user in the JWT flow: the claim buttons, the texts that   *)
(* answer them and the generate button; no call raises.                    *)
Claiming ==
    Only(Scope({"u1"}, {50}, {"txn-1"}, MaxSessionRecords, 0, 0, MaxTasks, 0),
         {"jwt"}, {}, JwtClaims, Texts)

InitJwt == InitOver({"u1"}, {12}, {0})

NextJwt ==
    \/ GenToken(Claiming)
    \/ TokenSelection(Claiming)
    \/ JwtOption(Claiming)
    \/ JwtGenerate(Claiming)
    \/ MetadataInput(Claiming)
    \/ MenuShown(Claiming)
    \/ JwtMenuShown(Claiming)
    \/ JwtPrompted(Claiming)
    \/ MetadataAcked(Claiming)
    \/ MetadataMenuShown(Claiming)
    \/ TokenSent(Claiming)
    \/ CopySent(Claiming)
    \/ ErrorSent(Claiming)

SpecJwt == InitJwt /\ [][NextJwt]_vars

(* SpecOutage: one user with an account and a balance; up to two calls of *)
(* a run raise, as when the chat transport is down for the token message   *)
(* and for the error message that follows it.                              *)
Outage ==
    Scope({"u1"}, {50}, {"txn-1"}, MaxSessionRecords, 0, MaxOutageFaults, MaxTasks, 0)

InitOutage == InitOver({"u1"}, {12}, {0}) /\ DOMAIN users = {"u1"}

NextOutage ==
    \/ GenToken(Outage)
    \/ TokenSelection(Outage)
    \/ CustomGenerate(Outage)
    \/ JwtGenerate(Outage)
    \/ MenuShown(Outage)
    \/ CustomMenuShown(Outage)
    \/ JwtMenuShown(Outage)
    \/ TokenSent(Outage)
    \/ CopySent(Outage)
    \/ ErrorSent(Outage)

SpecOutage == InitOutage /\ [][NextOutage]_vars

(* SpecLength: one user in the custom-token flow whose length callbacks   *)
(* carry 64, 0 and -5; no call raises.                                     *)
Sizing ==
    Only(Scope({"u1"}, {50}, {"txn-1"}, MaxSessionRecords, 0, 0, MaxTasks, 0),
         {"custom"}, {"custom_len_64", "custom_len_0", "custom_len_-5"}, {}, {})

InitLength == InitOver({"u1"}, InitCredits, {0})

NextLength ==
    \/ GenToken(Sizing)
    \/ MenuShown(Sizing)
    \/ TokenSelection(Sizing)
    \/ CustomOption(Sizing)
    \/ CustomGenerate(Sizing)
    \/ CustomMenuShown(Sizing)
    \/ TokenSent(Sizing)
    \/ CopySent(Sizing)
    \/ ErrorSent(Sizing)

SpecLength == InitLength /\ [][NextLength]_vars

----------------------------------------------------------------------------
(* SpecSummary: one user who reads the account status, by the command and *)
(* by the menu button, between free and paid API key issuances and across  *)
(* a day change; no call raises.                                           *)
Summarizing ==
    Only(Scope({"u1"}, {50}, {"txn-1"}, MaxSummaryRecords, 0, 0, MaxTasks, MaxDay),
         {"api"}, {}, {}, {})

InitSummary == InitOver({"u1"}, InitCredits, {0, PriorFree})

NextSummary ==
    \/ Start(Summarizing)
    \/ MyCredits(Summarizing)
    \/ MenuNav(Summarizing)
    \/ MenuShown(Summarizing)
    \/ TokenSelection(Summarizing)
    \/ TokenSent(Summarizing)
    \/ CopySent(Summarizing)
    \/ NewDay(Summarizing)

SpecSummary == InitSummary /\ [][NextSummary]_vars

(* SpecPinger: the pinger of the web application, started at startup and  *)
(* stopped at shutdown while it sleeps or pings; every sleep and ping that *)
(* has begun returns.                                                       *)
MaxPings == 3

PingReturns == \E outcome \in PingOutcomes : ping_returns(outcome)

SleepReturns ==
    /\ Len(pinged) < MaxPings \/ ~is_running
    /\ sleep_returns

InitPinger == InitOver({}, {0}, {0})

NextPinger ==
    \/ start
    \/ PingReturns
    \/ SleepReturns
    \/ stop
    \/ cancelled

SpecPinger ==
    /\ InitPinger /\ [][NextPinger]_vars
    /\ WF_vars(PingReturns) /\ WF_vars(SleepReturns)

----------------------------------------------------------------------------
(* Claims *)

\* C1: the stored credit balance of every account is >= 0 in every reachable
\* state, whatever issuances, denials and payments came before, and also
\* when store or transport calls raise.
BalanceNonNegative == \A u \in DOMAIN users : users[u].credits >= 0

\* C1 witness: with no call raised, a balance-funded issuance cost more than
\* the account ever held, and the balance is 0.
OverdrawnAtZero ==
    \E u \in DOMAIN users :
       faults = 0 /\ paidSpent[u] > funds[u] /\ users[u].credits = 0

\* C5: the stored free-quota-used-today counter never exceeds the daily
\* limit, and no more than that many issuances of one day are funded from
\* the free quota.
FreeQuotaWithinLimit ==
    \A u \in Users :
       /\ freeCount[u] <= FREE_DAILY_LIMIT
       /\ u \in DOMAIN users => users[u].free_tokens_used_today <= FREE_DAILY_LIMIT

\* C5 witness: an account has used the whole quota of the current day.
QuotaExhausted ==
    \E u \in DOMAIN users :
       /\ users[u].free_tokens_used_today = FREE_DAILY_LIMIT
       /\ users[u].free_tokens_last_reset = today
       /\ freeCount[u] = FREE_DAILY_LIMIT

\* the account holds the funds for a token of a kind: the kind is paid from
\* the free quota (priced at most FREE_ELIGIBLE_MAX_PRICE) and the effective
\* free-quota-used-today is below the limit, or the balance covers the price
Entitled(u, kind) ==
    LET row == Account(users, u) IN
    \/ /\ Cost(kind) <= FREE_ELIGIBLE_MAX_PRICE
       /\ effective_free_used(row, today) < FREE_DAILY_LIMIT
    \/ row.credits >= Cost(kind)

\* a step funds and produces a token of a kind for u
Issues(u, kind) ==
    /\ issued' = issued + 1
    /\ \E t \in BagToSet(tasks') :
          /\ CopiesIn(t, tasks') > CopiesIn(t, tasks)
          /\ t.user = u /\ t.token_type = kind /\ t.pc = "send_token"

\* C2: a token of kind K is issued to a user only if, when it is issued, K
\* is free-quota-eligible and the effective free-quota-used-today is below
\* the limit, or the balance is at least the cost of K.
IssuedOnlyIfEntitled ==
    [][\A u \in Users : \A kind \in TokenCallbacks :
          Issues(u, kind) => Entitled(u, kind)]_vars

\* the number of issuance requests of u that have been funded and wait for
\* their token to be delivered
InFlight(u, kind) ==
    BagCardinality([t \in {x \in Suspended : /\ x.user = u
                                              /\ x.token_type = kind
                                              /\ x.charge # "none"} |-> tasks[t]])

\* C3: whenever two issuance requests of one user for one kind are in flight,
\* the balance-funded issuances of the user cost no more in total than the
\* credits the account was ever given, and the free-funded ones of the day
\* are no more than the daily limit.
NoOverdrawInFlight ==
    \A u \in Users : \A kind \in TokenCallbacks :
       InFlight(u, kind) >= 2 => paidSpent[u] <= funds[u] /\ freeCount[u] <= FREE_DAILY_LIMIT

\* a PaymentRecord with the transaction id exists
TxnRecorded(x) == \E r \in BagToSet(payments) : r.transaction_id = x

\* a payment confirmation for u with transaction id x is answered as granted
Reconciled(u, x) ==
    reply'.text = "payment_ok" /\ reply'.to = u /\ reply'.txn = x

\* C4: a payment confirmation whose transaction id already has a
\* PaymentRecord changes neither the balance nor the payment records.
ReconcileIdempotent ==
    [][\A u \in Users : \A x \in TxnIds :
          (TxnRecorded(x) /\ Reconciled(u, x))
             => users' = users /\ payments' = payments]_vars

\* C6: when the stored reset date is before today, an API-key or UUID
\* request is funded from the free quota whatever the stored counter is,
\* the stored counter becomes 1, the stored reset date becomes today and the
\* balance stays as it is.
LazyDailyReset ==
    [][\A u \in DOMAIN users : \A kind \in {"api", "uuid"} :
          (/\ users[u].free_tokens_last_reset < today
           /\ handle_token_selection(u, kind, {}))
             => /\ Issues(u, kind)
                /\ users'[u].free_tokens_used_today = 1
                /\ users'[u].free_tokens_last_reset = today
                /\ users'[u].credits = users[u].credits
                /\ freeCount'[u] = freeCount[u] + 1
                /\ paidSpent' = paidSpent]_vars

\* C6 witness: an account that had used the whole quota of day 0 has been
\* issued its first free token of day 1, with no call raised.
FreeAgainNextDay ==
    \E u \in DOMAIN users :
       /\ today = 1 /\ faults = 0
       /\ users[u].tokens_generated = FREE_DAILY_LIMIT + 1
       /\ users[u].free_tokens_used_today = 1
       /\ users[u].free_tokens_last_reset = 1
       /\ freeCount[u] = 1 /\ paidSpent[u] = 0

\* the GenerationRecords of u for a kind with a charge
Records(u, kind, charge) ==
    CopiesIn([telegram_id |-> u, token_type |-> kind, credits_used |-> charge],
             token_transactions)

\* the account of the scenario after k free API keys on the day it was made
FreshAfter(k) ==
    [credits |-> 0, tokens_generated |-> k, free_tokens_used_today |-> k,
     free_tokens_last_reset |-> today]

\* C7: for an account with balance 0 made today, the first three API-key
\* requests of the day are each funded from the free quota with 0 credits
\* charged, and the fourth is denied with cost 5 and balance 0 and changes
\* nothing in the ledger.
FreshAccountScenario ==
    [][\A u \in DOMAIN users : \A k \in 0..FREE_DAILY_LIMIT :
          (users[u] = FreshAfter(k) /\ handle_token_selection(u, "api", {}))
             => IF k < FREE_DAILY_LIMIT
                THEN /\ users'[u] = FreshAfter(k + 1)
                     /\ Issues(u, "api")
                     /\ Records(u, "api", 0)' = Records(u, "api", 0) + 1
                     /\ freeCount'[u] = freeCount[u] + 1
                     /\ paidSpent' = paidSpent
                ELSE /\ reply' = Message(u, "insufficient", "api", 5, 0, 0, 0, "none")
                     /\ UNCHANGED <<ledger, tasks, history>>]_vars

\* C7 witness: the fourth request of the scenario has just been denied.
FourthDenied ==
    \E u \in DOMAIN users :
       /\ users[u] = FreshAfter(FREE_DAILY_LIMIT)
       /\ Records(u, "api", 0) = FREE_DAILY_LIMIT
       /\ reply = Message(u, "insufficient", "api", 5, 0, 0, 0, "none")
       /\ funds[u] = 0 /\ paidSpent[u] = 0

\* C8: a CUSTOM token issued to an account with balance 12 leaves balance
\* 4, and no CUSTOM token is issued to an account with balance 4, whatever
\* its free quota.
CustomScenario ==
    [][\A u \in DOMAIN users :
          /\ (users[u].credits = 12 /\ Issues(u, "custom")) => users'[u].credits = 4
          /\ users[u].credits = 4 => ~Issues(u, "custom")]_vars

\* the credits a payment of an amount grants
Granted(stars) ==
    CASE stars = 50 -> 100
      [] stars = 100 -> 250
      [] stars = 250 -> 750
      [] stars = 500 -> 2000
      [] OTHER -> 2 * stars

\* C9: a payment for an existing account with a new transaction id grants
\* the package value for 50, 100, 250 and 500 and twice the amount for any
\* other amount, and the balance increases by exactly the grant.
PaymentGrant ==
    [][\A u \in DOMAIN users : \A s \in StarAmounts : \A x \in TxnIds :
          (~TxnRecorded(x) /\ successful_payment_handler(u, s, x, {}))
             => /\ users'[u].credits = users[u].credits + Granted(s)
                /\ reply' = Message(u, "payment_ok", "none", 0,
                                    users[u].credits + Granted(s), s, Granted(s), x)
                /\ funds'[u] = funds[u] + Granted(s)]_vars

\* C9 witness: a payment of 77 has just granted 154 to an account.
Granted154 ==
    \E u \in DOMAIN users :
       /\ reply.text = "payment_ok" /\ reply.to = u
       /\ reply.stars = 77 /\ reply.granted = 154
       /\ reply.balance = users[u].credits
       /\ users[u].credits >= 154

\* C10: an issuance attempt that ends in the error answer has taken nothing
\* from the account: neither credits nor a free token.
NoChargeWithoutDelivery ==
    \A t \in Suspended : t.pc = "send_error" => t.took = Nothing

\* the PaymentRecords a step appends
NewPayments == BagToSet(payments' (-) payments)

\* the credits of the PaymentRecords a step appends for u
GrantRecorded(u) ==
    IF \E r \in NewPayments : r.telegram_id = u
    THEN (CHOOSE r \in NewPayments : r.telegram_id = u).credits_purchased
    ELSE 0

\* C11: the balance update and the PaymentRecord append are one unit: every
\* step adds to the balance of a user exactly the credits of the
\* PaymentRecord it appends for that user, and nothing when it appends none,
\* also when a store write raises.
PaymentAtomic ==
    [][\A u \in Users :
          Account(users', u).credits - Account(users, u).credits = GrantRecorded(u)]_vars

\* the GenerationRecords a step appends
NewRecords == BagToSet(token_transactions' (-) token_transactions)

\* the handler a step has suspended with the token of u of a kind to send
Funded(t, u, kind) ==
    /\ CopiesIn(t, tasks') > CopiesIn(t, tasks)
    /\ t.user = u /\ t.token_type = kind /\ t.pc = "send_token"

\* C12: the GenerationRecord of an issuance states the credits charged for
\* it: 0 when the issuance was funded from the free quota, the cost of the
\* kind otherwise, and the balance went down by that amount.
RecordStatesCharge ==
    [][\A u \in Users : \A kind \in TokenCallbacks : \A t \in BagToSet(tasks') :
          (issued' = issued + 1 /\ Funded(t, u, kind))
             => \E r \in NewRecords :
                   /\ r.telegram_id = u /\ r.token_type = kind
                   /\ r.credits_used = IF t.charge = "free" THEN 0 ELSE Cost(kind)
                   /\ Account(users, u).credits - Account(users', u).credits
                         = r.credits_used]_vars

\* an event was rejected without effect: no token is funded or waits to be
\* sent, the ledger and the stage of every session are as before
Rejected == UNCHANGED <<ledger, fsm_state, tasks, issued>>

\* the session of u is Idle or ChoosingKind
NotConfiguring(u) == fsm_state[u] \in {"None", "choosing_token_type"}

\* C13: a custom or JWT generate event or a custom parameter update received
\* while the session is Idle or ChoosingKind, and a token-kind selection
\* received while the session is not ChoosingKind, issue no token and leave
\* the ledger and the session state unchanged.
InvalidEventRejected ==
    [][\A u \in Users :
          /\ (NotConfiguring(u) /\
                \E data \in CustomCallbacks : handle_customization(u, data, {}))
                => Rejected
          /\ (NotConfiguring(u) /\ handle_jwt_metadata(u, "generate", {}))
                => Rejected
          /\ (fsm_state[u] # "choosing_token_type" /\
                \E cb \in TokenCallbacks : handle_token_selection(u, cb, {}))
                => Rejected]_vars

\* C14: a request denied for insufficient funds changes nothing in the
\* ledger (balance, free-quota counter, reset date, tokens-generated counter,
\* GenerationRecords) and funds nothing, also when the denial message cannot
\* be sent; the denial reports the cost of the kind and the current balance.
DenialMutatesNothing ==
    [][\A u \in Users :
          /\ (reply'.text = "insufficient" /\ reply'.to = u)
                => /\ UNCHANGED <<ledger, tasks, history>>
                   /\ u \in DOMAIN users
                   /\ reply'.cost = Cost(reply'.kind)
                   /\ reply'.balance = users[u].credits
          /\ (\E cb \in TokenCallbacks : handle_token_selection(u, cb, {"answer"}))
                => UNCHANGED <<ledger, tasks, history>>]_vars

\* C14 witness: an account with credits left and no free token left has just
\* been denied a kind it cannot pay, and the denial states its balance.
DenialReported ==
    \E u \in DOMAIN users :
       /\ reply.text = "insufficient" /\ reply.to = u
       /\ reply.cost = Cost(reply.kind)
       /\ reply.balance = users[u].credits /\ reply.balance > 0
       /\ users[u].free_tokens_used_today = FREE_DAILY_LIMIT

\* a handler of u waits to send a token whose whole cost was taken from the
\* balance: the balance was at least the cost when it was funded
PaidInFlight(u, t) ==
    /\ t \in Suspended /\ t.user = u
    /\ t.charge = "credits" /\ t.took.credits = Cost(t.token_type)

\* C15: with one payment confirmation and one balance-funded issuance (the
\* balance covering its cost) of a user in progress together, in whatever
\* order their store writes ran, the balance is the initial balance plus the
\* grant minus the cost.
GrantNotLost ==
    \A u \in DOMAIN users : \A t \in Suspended :
       (PaidInFlight(u, t) /\ issued = 1 /\ BagCardinality(payments) = 1)
          => users[u].credits = funds[u] - paidSpent[u]

\* C15 witness: the payment has just been credited while the handler of a
\* balance-funded issuance waits in its transport call.
GrantDuringIssuance ==
    \E u \in DOMAIN users : \E t \in Suspended :
       /\ PaidInFlight(u, t) /\ issued = 1 /\ BagCardinality(payments) = 1
       /\ t.pc = "send_token"
       /\ reply.text = "payment_ok" /\ reply.to = u
       /\ reply.balance = 12 + reply.granted - Cost(t.token_type)

\* the number of handlers of u that wait to send a token funded from the
\* free quota
FreeInFlight(u) ==
    BagCardinality([t \in {x \in Suspended : x.user = u /\ x.charge = "free"} |-> tasks[t]])

\* C16: no increment of the free-quota counter is lost, whatever requests of
\* the user are in flight together: once the account has been accessed
\* today the stored counter is the number of issuances funded from the free
\* quota today, and until then no issuance of today was funded from it.
FreeQuotaCounted ==
    \A u \in DOMAIN users :
       IF users[u].free_tokens_last_reset = today
       THEN users[u].free_tokens_used_today = freeCount[u]
       ELSE freeCount[u] = 0

\* C16 witness: after the day change, two free-funded issuances of an account
\* whose stored counter was stale are in flight together and both counted.
TwoFreeInFlightNewDay ==
    \E u \in DOMAIN users :
       /\ today = 1 /\ FreeInFlight(u) = 2
       /\ users[u].tokens_generated = PriorFree + 2
       /\ users[u].free_tokens_used_today = 2
       /\ users[u].free_tokens_last_reset = 1
       /\ freeCount[u] = 2

\* a step is an operation of user a: one of a's events is handled, or a
\* handler of a returns from a transport call
OperationOf(a) ==
    \/ cmd_start(a, {})
    \/ cmd_gentoken(a)
    \/ \E menu \in MenuCallbacks : handle_menu(a, menu)
    \/ \E cb \in TokenCallbacks : handle_token_selection(a, cb, {})
    \/ \E data \in CustomCallbacks : handle_customization(a, data, {})
    \/ \E action \in JwtCallbacks : handle_jwt_metadata(a, action, {})
    \/ \E text \in Texts : handle_metadata_input(a, text)
    \/ \E s \in StarAmounts : \E x \in TxnIds : successful_payment_handler(a, s, x, {})
    \/ \E t \in Suspended : \E ok \in BOOLEAN :
          /\ t.user = a
          /\ \/ show_token_menu(t, ok) \/ ask_customization(t, ok) \/ ask_prefix(t, ok)
             \/ ask_jwt_metadata(t, ok) \/ jwt_prompt(t, ok) \/ metadata_ack(t, ok)
             \/ metadata_menu(t, ok) \/ send_token(t, ok) \/ send_copy(t, ok)
             \/ send_error(t, ok)

\* the rows of a table that belong to user b
RowsOf(table, b) ==
    [r \in {x \in BagToSet(table) : x.telegram_id = b} |-> table[r]]

\* the account, the session and the audit records of b are as before
UntouchedFor(b) ==
    /\ (b \in DOMAIN users') = (b \in DOMAIN users)
    /\ Account(users', b) = Account(users, b)
    /\ fsm_state'[b] = fsm_state[b]
    /\ fsm_data'[b] = fsm_data[b]
    /\ RowsOf(token_transactions', b) = RowsOf(token_transactions, b)
    /\ RowsOf(payments', b) = RowsOf(payments, b)

\* C17: an operation of one user leaves the account fields, the session
\* (stage and draft) and the audit records of every other user unchanged.
OtherUserUntouched ==
    [][\A a \in Users : \A b \in Users \ {a} : OperationOf(a) => UntouchedFor(b)]_vars

\* C17 witness: a token has just reached a user who has paid and been
\* charged, which ended that user's session, while the other user, who has
\* an account, is still choosing a kind from the menu.
BothUsersActive ==
    \E a \in Users : \E b \in Users \ {a} :
       /\ {a, b} \subseteq DOMAIN users
       /\ users[a].tokens_generated = 1 /\ paidSpent[a] > 0
       /\ RowsOf(payments, a) # EmptyBag
       /\ tasks = EmptyBag /\ fsm_state[a] = "None"
       /\ fsm_state[b] = "choosing_token_type"
       /\ users[b].credits = 12

\* the effective free-quota-used-today of an account: 0 when its reset date
\* is before today
UsedToday(u) ==
    IF users[u].free_tokens_last_reset < today THEN 0
    ELSE users[u].free_tokens_used_today

\* C18: an API-key or UUID request of an account whose effective
\* free-quota-used-today is below the limit is funded from the free quota
\* whatever the balance: the balance is unchanged and the counter is the
\* effective value plus 1.
FreeQuotaPreferred ==
    [][\A u \in Users \cap DOMAIN users : \A kind \in {"api", "uuid"} :
          (UsedToday(u) < FREE_DAILY_LIMIT /\ handle_token_selection(u, kind, {}))
             => /\ Issues(u, kind)
                /\ users'[u].credits = users[u].credits
                /\ users'[u].free_tokens_used_today = UsedToday(u) + 1
                /\ freeCount'[u] = freeCount[u] + 1
                /\ paidSpent' = paidSpent]_vars

\* C18 witness: an account whose balance covers the cost has been issued a
\* token from the free quota and still has its whole balance.
FreeDespiteBalance ==
    \E u \in Users \cap DOMAIN users : \E t \in Suspended :
       /\ t.user = u /\ t.charge = "free" /\ t.pc = "send_token"
       /\ users[u].credits = 12 /\ funds[u] = 12 /\ paidSpent[u] = 0
       /\ users[u].credits >= Cost(t.token_type)
       /\ users[u].free_tokens_used_today = freeCount[u] /\ freeCount[u] >= 1

\* C19: an issuance that is not funded from the free quota (the quota is
\* used up or the kind costs more than the free-eligible price) and whose
\* cost the balance covers lowers the balance by exactly the cost of the kind
\* and leaves free-quota-used-today and its reset date unchanged.
BalanceFundedFrame ==
    [][\A u \in Users \cap DOMAIN users : \A kind \in TokenCallbacks :
          (/\ Issues(u, kind)
           /\ ~(Cost(kind) <= FREE_ELIGIBLE_MAX_PRICE /\ UsedToday(u) < FREE_DAILY_LIMIT)
           /\ users[u].credits >= Cost(kind))
             => /\ users'[u].credits = users[u].credits - Cost(kind)
                /\ users'[u].free_tokens_used_today = users[u].free_tokens_used_today
                /\ users'[u].free_tokens_last_reset = users[u].free_tokens_last_reset
                /\ paidSpent'[u] = paidSpent[u] + Cost(kind)
                /\ freeCount' = freeCount]_vars

\* the kinds priced above the free-eligible price: JWT 10, CUSTOM 8, BULK 20
PricedAboveFree == {kind \in TokenCallbacks : Cost(kind) > FREE_ELIGIBLE_MAX_PRICE}

\* C20: an issuance of a kind priced above 5 credits (JWT, CUSTOM, BULK)
\* never consumes free quota: the stored free-quota-used-today, its reset date
\* and the number of free issuances of the user are the same before and after
\* it, whatever quota remains.
PricedKindsKeepFreeQuota ==
    [][\A u \in Users \cap DOMAIN users : \A kind \in PricedAboveFree :
          Issues(u, kind)
             => /\ users'[u].free_tokens_used_today = users[u].free_tokens_used_today
                /\ users'[u].free_tokens_last_reset = users[u].free_tokens_last_reset
                /\ freeCount' = freeCount]_vars

\* C20 witness: a JWT, CUSTOM or BULK token waits to be sent to an account
\* that has free quota left today and has never been issued a free token.
PricedIssuedWithQuotaLeft ==
    \E u \in Users \cap DOMAIN users : \E t \in Suspended :
       /\ t.user = u /\ t.token_type \in PricedAboveFree /\ t.pc = "send_token"
       /\ t.took.free = 0
       /\ UsedToday(u) < FREE_DAILY_LIMIT
       /\ freeCount[u] = 0 /\ issued >= 1

\* the task a step suspends for a token funded for u
IssuedTask(t, u, kind) ==
    /\ CopiesIn(t, tasks') > CopiesIn(t, tasks)
    /\ t.user = u /\ t.token_type = kind /\ t.pc = "send_token"

\* C21: in CustomizingCustom the generate event issues the custom token with
\* the most recent length, character set and prefix the user gave in this
\* flow, and with the default (32, letters+digits, no prefix) for a parameter
\* the user never set; a prefix given through the sub-dialog is the prefix of
\* the token, and a length or character set chosen before it still holds.
CustomUsesLatest ==
    [][\A u \in Users :
          (fsm_state[u] = "customizing_token" /\ Issues(u, "custom"))
             => \E t \in BagToSet(tasks') :
                   /\ IssuedTask(t, u, "custom")
                   /\ t.token = generate_custom_token(
                                   DictGet(given[u], "custom_length", 32),
                                   DictGet(given[u], "custom_prefix", ""),
                                   DictGet(given[u], "custom_charset", "ld") = "all")]_vars

\* the session of u is in CollectingJwtClaims
CollectingJwtClaims(u) ==
    /\ fsm_state[u] = "entering_metadata"
    /\ DictGet(fsm_data[u], "token_type", "None") = "jwt"

\* the claims a user can add a text for
TextClaims == {"user_id", "email", "role"}

\* C22: in CollectingJwtClaims, at the generate event the draft claim map
\* holds the latest value the user supplied for every key that was added
\* (user_id, email, role, and the expiry hours), and the JWT that is issued
\* embeds those claims.
JwtEmbedsClaims ==
    [][\A u \in Users :
          (CollectingJwtClaims(u) /\ Issues(u, "jwt"))
             => LET payload == DictGet(fsm_data[u], "jwt_payload", EmptyDict) IN
                /\ \A k \in TextClaims \cap DOMAIN given[u] :
                      k \in DOMAIN payload /\ payload[k] = given[u][k]
                /\ "expiry" \in DOMAIN given[u] => "exp_hours" \in DOMAIN payload
                /\ \E t \in BagToSet(tasks') :
                      /\ IssuedTask(t, u, "jwt")
                      /\ \A k \in TextClaims \cap DOMAIN given[u] :
                            /\ k \in DOMAIN t.token.claims
                            /\ t.token.claims[k] = given[u][k]]_vars

\* the kinds that are generated as soon as they are selected
ImmediateKinds == {"api", "uuid", "bulk"}

\* the handler that waits in t returns in this step
Completes(t) == t \in Suspended /\ tasks' = Resume(t)

\* C23: selecting API_KEY, UUID or BULK in ChoosingKind leaves the session
\* Idle whatever the outcome: when the selection is denied for insufficient
\* credits, and when the generation that the selection started has
\* returned, after the token or after the error answer.
SelectionEndsIdle ==
    [][\A u \in Users : \A kind \in ImmediateKinds :
          /\ (/\ fsm_state[u] = "choosing_token_type"
              /\ handle_token_selection(u, kind, {})
              /\ reply'.to = u /\ reply'.text = "insufficient")
                => fsm_state'[u] = "None"
          /\ \A t \in Suspended :
                (/\ t.user = u /\ t.token_type = kind
                 /\ t.pc \in {"send_token", "send_copy", "send_error"}
                 /\ Completes(t))
                   => fsm_state'[u] = "None"]_vars

\* the parameters of a flow that the session keeps in its draft
DraftKeys ==
    {"token_type", "custom_length", "custom_charset", "custom_prefix",
     "jwt_payload", "jwt_action"}

\* the draft of u holds no parameter and no pending-input marker
DraftEmpty(data) ==
    /\ DraftKeys \cap DOMAIN data = {}
    /\ DictGet(data, "waiting_for", "None") = "None"

\* C24: a start-generation event, in any session state, moves the session to
\* ChoosingKind and resets the draft: once the menu is shown no parameter of
\* the earlier flow (kind, custom length, charset, prefix, claim map,
\* pending-input marker) remains in the session.
StartResetsDraft ==
    [][\A t \in Suspended :
          (t.pc = "show_token_menu" /\ show_token_menu(t, TRUE))
             => /\ fsm_state'[t.user] = "choosing_token_type"
                /\ DraftEmpty(fsm_data'[t.user])]_vars

\* C25: every generate action ends the session: when generate_and_send_token
\* returns, after the token was sent or after the error answer, the session
\* of the user is Idle and its draft is empty.
GenerateEndsSession ==
    [][\A t \in Suspended :
          (t.pc \in {"send_token", "send_copy", "send_error"} /\ Completes(t))
             => /\ fsm_state'[t.user] = "None"
                /\ fsm_data'[t.user] = EmptyDict]_vars

\* C26: when a store call of an issuance attempt fails (the store is
\* unavailable, or the debit write raises), no token is issued; in
\* particular a token that is funded from the balance is issued only if its
\* debit was written.
StoreFailureStopsIssuance ==
    [][\A u \in Users \cap DOMAIN users : \A kind \in TokenCallbacks :
          Issues(u, kind)
             => /\ faults' = faults
                /\ \A t \in BagToSet(tasks') :
                      (IssuedTask(t, u, kind) /\ t.charge = "credits")
                         => users'[u].credits =
                               Max(0, users[u].credits - Cost(kind))]_vars

\* C27: a request for a custom token with a non-positive length is rejected:
\* no token is issued and no ledger field (balance, free quota, counters,
\* records) changes.
NonPositiveLengthRejected ==
    [][\A u \in Users :
          (/\ DictGet(fsm_data[u], "custom_length", 32) <= 0
           /\ handle_customization(u, "custom_generate", {}))
             => /\ ~Issues(u, "custom")
                /\ UNCHANGED <<ledger, accounting>>]_vars

\* clamp(h, lo, hi)
Clamp(h, lo, hi) == IF h < lo THEN lo ELSE IF h > hi THEN hi ELSE h

\* C28: a JWT issued after the user supplied the expiry hours h (an integer)
\* expires clamp(h, 1, 720) hours after it was issued, and the lifetime of
\* every issued JWT is between 1 and 720 hours.
JwtLifetimeClamped ==
    [][\A u \in Users : \A t \in BagToSet(tasks') :
          IssuedTask(t, u, "jwt")
             => /\ t.token.expires_hours \in 1..720
                /\ (/\ CollectingJwtClaims(u)
                    /\ "expiry" \in DOMAIN given[u]
                    /\ given[u]["expiry"] \in DOMAIN Numbers)
                      => t.token.expires_hours =
                            Clamp(Numbers[given[u]["expiry"]], 1, 720)]_vars

\* C29: each successful issuance appends exactly one GenerationRecord, of
\* the user, and raises the tokens-generated counter of the user by exactly
\* 1 (a bulk issuance counts once); a step that issues nothing appends no
\* record and leaves the counters; no record is ever changed or removed; so
\* tokens-generated equals the number of GenerationRecords of the user.
OneRecordPerIssuance ==
    [][/\ \A u \in Users \cap DOMAIN users : \A kind \in TokenCallbacks :
             Issues(u, kind)
                => /\ BagCardinality(token_transactions' (-) token_transactions) = 1
                   /\ \A r \in NewRecords : r.telegram_id = u /\ r.token_type = kind
                   /\ users'[u].tokens_generated = users[u].tokens_generated + 1
       /\ issued' = issued
             => /\ token_transactions' = token_transactions
                /\ \A u \in DOMAIN users :
                      users'[u].tokens_generated = users[u].tokens_generated
       /\ token_transactions \sqsubseteq token_transactions'
       /\ \A u \in Users \cap DOMAIN users' :
             users'[u].tokens_generated =
                BagCardinality(RowsOf(token_transactions', u))]_vars

\* the draft claim map of a session
ClaimMap(data) == DictGet(data, "jwt_payload", EmptyDict)

\* C30: in CollectingJwtClaims a free-text message changes the draft claim
\* map only while an add-claim prompt is pending: a text sent when no
\* add-claim event came since the previous value was merged leaves the claim
\* map as it was.
StrayTextKeepsClaims ==
    [][\A u \in Users : \A text \in Texts :
          (/\ CollectingJwtClaims(u)
           /\ DictGet(given[u], "pending", "None") = "None"
           /\ handle_metadata_input(u, text))
             => ClaimMap(fsm_data'[u]) = ClaimMap(fsm_data[u])]_vars

\* the account status is sent to u: by /mycredits, or by the "My Credits"
\* button
ReadsSummary(u) ==
    \/ \E f \in SUBSET StatusFaults : cmd_mycredits(u, f)
    \/ handle_menu(u, "credits")

\* C31: the account summary sent to a user reports free tokens left today =
\* max(0, 3 - effective free used today) of that user's account, a number
\* in 0..3 that is 3 on the first read after a day boundary, and reading it
\* changes no field of an account that exists.
SummaryReportsQuota ==
    [][\A u \in Users :
          ReadsSummary(u) =>
             /\ reply'.text = "summary" /\ reply'.to = u
             /\ reply'.free_left \in 0..FREE_DAILY_LIMIT
             /\ u \in DOMAIN users' =>
                   /\ reply'.free_left =
                         Max(0, FREE_DAILY_LIMIT - effective_free_used(users'[u], today))
                   /\ reply'.balance = users'[u].credits
                   /\ reply'.total = users'[u].tokens_generated
             /\ (u \in DOMAIN users /\ users[u].free_tokens_last_reset < today
                   => reply'.free_left = FREE_DAILY_LIMIT)
             /\ (u \in DOMAIN users => users'[u] = users[u])]_vars

\* a payment confirmation of u is processed
Confirms(u) == Payment([Acting EXCEPT !.users = {u}])

\* C32: processing a payment confirmation leaves the user's session (stage
\* and draft), the handlers in flight, the generation log and the account's
\* free-used-today, reset date and tokens-generated counter unchanged, in
\* whatever session state it arrives.
PaymentChangesOnlyLedger ==
    [][\A u \in Users :
          Confirms(u) =>
             /\ fsm_state' = fsm_state /\ fsm_data' = fsm_data
             /\ tasks' = tasks
             /\ token_transactions' = token_transactions
             /\ DOMAIN users' = DOMAIN users
             /\ \A v \in DOMAIN users :
                   /\ users'[v].free_tokens_used_today = users[v].free_tokens_used_today
                   /\ users'[v].free_tokens_last_reset = users[v].free_tokens_last_reset
                   /\ users'[v].tokens_generated = users[v].tokens_generated
                   /\ v # u => users'[v] = users[v]]_vars

\* a credited payment arrived in the middle of a draft, on an account that
\* has used free quota today
PaidMidDraft ==
    /\ reply.text = "payment_ok" /\ reply.to = "u1"
    /\ fsm_state["u1"] \in {"customizing_token", "entering_metadata"}
    /\ fsm_data["u1"] # EmptyDict
    /\ "u1" \in DOMAIN users /\ users["u1"].free_tokens_used_today > 0
    /\ payments # EmptyBag

\* C33: selecting jwt moves the session to entering_metadata (collecting JWT
\* claims) with an empty draft claim map, and a JWT generated there without
\* any claim added carries no caller-supplied claim, only the standard
\* iat/exp/iss/aud/sub fields.
JwtStartsEmpty ==
    [][\A u \in Users :
          /\ \A t \in Suspended :
                (t.user = u /\ t.token_type = "jwt" /\ ask_jwt_metadata(t, TRUE))
                   => /\ fsm_state'[u] = "entering_metadata"
                      /\ ClaimMap(fsm_data'[u]) = EmptyDict
          /\ (CollectingJwtClaims(u) /\ Issues(u, "jwt") /\ given[u] = EmptyDict)
                => \E t \in BagToSet(tasks') :
                      IssuedTask(t, u, "jwt") /\ t.token.claims = EmptyDict]_vars

\* C34: a bulk issuance produces exactly ten API keys in one result and is
\* charged once, 20 credits from the balance and nothing from the free
\* quota; a bulk request that the balance cannot fund is denied as a whole:
\* nothing is issued and nothing is charged.
BulkAllOrNothing ==
    [][\A u \in Users \cap DOMAIN users :
          handle_token_selection(u, "bulk", {}) =>
             IF users[u].credits >= PRICES["bulk"]
             THEN /\ Issues(u, "bulk")
                  /\ \E t \in BagToSet(tasks') :
                        IssuedTask(t, u, "bulk") /\ t.token.count = BulkSize
                  /\ users'[u].credits = users[u].credits - PRICES["bulk"]
                  /\ users'[u].free_tokens_used_today = users[u].free_tokens_used_today
                  /\ users'[u].free_tokens_last_reset = users[u].free_tokens_last_reset
                  /\ paidSpent'[u] = paidSpent[u] + PRICES["bulk"]
                  /\ freeCount' = freeCount
                  /\ Cardinality(NewRecords) = 1
             ELSE /\ issued' = issued
                  /\ users' = users
                  /\ token_transactions' = token_transactions
                  /\ reply'.text = "insufficient"]_vars

\* C35: a payment confirmation for a user who has no account creates no
\* account, grants no credits and appends no PaymentRecord, and (when the
\* answer can be sent) reports the payment as received but not credited; a
\* PaymentRecord is appended only by a step whose balance update succeeded.
UncreditedPaymentLeavesNoTrace ==
    [][\A u \in Users : \A s \in StarAmounts : \A x \in TxnIds :
          \A f \in SUBSET PayFaults :
             successful_payment_handler(u, s, x, f) =>
                /\ u \notin DOMAIN users =>
                      /\ users' = users
                      /\ payments' = payments
                      /\ funds' = funds
                      /\ "answer" \notin f =>
                            reply' = Message(u, "payment_failed", "none", 0, 0, 0, 0, "none")
                /\ payments' # payments =>
                      /\ u \in DOMAIN users /\ f \cap {"pay_get", "pay_upd"} = {}
                      /\ users'[u].credits = NewCredits(users[u].credits, credits_for(s))]_vars

\* a payment arrived for a user without an account, with no call raising
PaymentWithoutAccount ==
    /\ reply = Message("u1", "payment_failed", "none", 0, 0, 0, 0, "none")
    /\ "u1" \notin DOMAIN users
    /\ payments = EmptyBag /\ funds["u1"] = 0
    /\ faults = 0

\* C36: start() sends one ping before its first interval wait; once stop()
\* has been called on the running pinger, start() begins no further sleep,
\* ends at most one more ping and then returns; and a ping that fails while
\* the pinger is running is followed by the next sleep, not by the end of
\* the loop.
PingerStopsWithinOneCycle ==
    /\ [](start_at \in {"sleep", "ping"} => Len(pinged) >= 1)
    /\ [](since_stop.sleeps = 0 /\ since_stop.pings <= 1)
    /\ (since_stop.called ~> start_at = "done")
    /\ [][\A outcome \in PingOutcomes :
             (ping_returns(outcome) /\ ~ping(outcome) /\ is_running)
                => start_at' = "sleep"]_vars

\* stop() was called while start() slept after a failed ping; the sleep
\* returned, one more ping was sent, and start() returned
StoppedAfterOneMorePing ==
    /\ since_stop.called /\ since_stop.pings = 1
    /\ start_at = "done"
    /\ Len(pinged) = 3
    /\ ~ping(pinged[1]) /\ ~ping(pinged[2])

====
